---- MODULE Spec2Model ----
(***************************************************************************)
(* A model of the PZEM-004T v3 client library (src/pzem/pzem.go): the      *)
(* session state of one pzem value, the frames it writes to the serial     *)
(* port, the replies it admits, and the staleness-gated measurement cache. *)
(* The serial port and the clock are the environment: every Write and Read *)
(* outcome and every passage of time is an input of the action that        *)
(* consumes it.  Times are in milliseconds; the clock and the timestamp    *)
(* lastRead are kept as their difference (sinceRead below).                *)
(***************************************************************************)
EXTENDS Integers, Sequences, FiniteSets, TLC

(***************************************************************************)
(* Program constants (src/pzem/pzem.go, const block).                      *)
(***************************************************************************)
ModbusRTUAddress == 2
ReadInputRegister == 4
WriteSingleRegister == 6
ResetEnergy == 66
PzemUpdateTime == 1000
PzemDefaultAddress == 248
\* isError's marker byte 0x84, the sleeps of sendCmd8 and ResetEnergy, and
\* the buffer lengths the code allocates.
ErrorMarker == 132
CmdDelay == 200
ResetDelay == 400
CmdLen == 8
ResetLen == 4
ResponseLen == 25

(***************************************************************************)
(* Bytes and bit operations.                                               *)
(***************************************************************************)
\* Xor of two 4-bit values: entry 16 * x + y + 1 is x xor y.
XorNib ==
    << 0,  1,  2,  3,  4,  5,  6,  7,  8,  9, 10, 11, 12, 13, 14, 15,
        1,  0,  3,  2,  5,  4,  7,  6,  9,  8, 11, 10, 13, 12, 15, 14,
        2,  3,  0,  1,  6,  7,  4,  5, 10, 11,  8,  9, 14, 15, 12, 13,
        3,  2,  1,  0,  7,  6,  5,  4, 11, 10,  9,  8, 15, 14, 13, 12,
        4,  5,  6,  7,  0,  1,  2,  3, 12, 13, 14, 15,  8,  9, 10, 11,
        5,  4,  7,  6,  1,  0,  3,  2, 13, 12, 15, 14,  9,  8, 11, 10,
        6,  7,  4,  5,  2,  3,  0,  1, 14, 15, 12, 13, 10, 11,  8,  9,
        7,  6,  5,  4,  3,  2,  1,  0, 15, 14, 13, 12, 11, 10,  9,  8,
        8,  9, 10, 11, 12, 13, 14, 15,  0,  1,  2,  3,  4,  5,  6,  7,
        9,  8, 11, 10, 13, 12, 15, 14,  1,  0,  3,  2,  5,  4,  7,  6,
       10, 11,  8,  9, 14, 15, 12, 13,  2,  3,  0,  1,  6,  7,  4,  5,
       11, 10,  9,  8, 15, 14, 13, 12,  3,  2,  1,  0,  7,  6,  5,  4,
       12, 13, 14, 15,  8,  9, 10, 11,  4,  5,  6,  7,  0,  1,  2,  3,
       13, 12, 15, 14,  9,  8, 11, 10,  5,  4,  7,  6,  1,  0,  3,  2,
       14, 15, 12, 13, 10, 11,  8,  9,  6,  7,  4,  5,  2,  3,  0,  1,
       15, 14, 13, 12, 11, 10,  9,  8,  7,  6,  5,  4,  3,  2,  1,  0 >>

\* Xor of two bytes; of two 16-bit values.
XorByte(x, y) ==
    XorNib[16 * (x \div 16) + (y \div 16) + 1] * 16 + XorNib[16 * (x % 16) + (y % 16) + 1]

Xor16(x, y) ==
    XorByte(x % 256, y % 256) + 256 * XorByte((x \div 256) % 256, (y \div 256) % 256)

(***************************************************************************)
(* The checksum engine, crc16.CRC: the Modbus CRC-16 (reflected polynomial *)
(* 0xA001, initial value 0xFFFF), table driven.                            *)
(***************************************************************************)
CRCInit == 65535

\* CRCTable[i + 1] is the table's entry for the byte i.
CRCTable ==
    <<     0, 49345, 49537,   320, 49921,   960,   640, 49729,
       50689,  1728,  1920, 51009,  1280, 50625, 50305,  1088,
       52225,  3264,  3456, 52545,  3840, 53185, 52865,  3648,
        2560, 51905, 52097,  2880, 51457,  2496,  2176, 51265,
       55297,  6336,  6528, 55617,  6912, 56257, 55937,  6720,
        7680, 57025, 57217,  8000, 56577,  7616,  7296, 56385,
        5120, 54465, 54657,  5440, 55041,  6080,  5760, 54849,
       53761,  4800,  4992, 54081,  4352, 53697, 53377,  4160,
       61441, 12480, 12672, 61761, 13056, 62401, 62081, 12864,
       13824, 63169, 63361, 14144, 62721, 13760, 13440, 62529,
       15360, 64705, 64897, 15680, 65281, 16320, 16000, 65089,
       64001, 15040, 15232, 64321, 14592, 63937, 63617, 14400,
       10240, 59585, 59777, 10560, 60161, 11200, 10880, 59969,
       60929, 11968, 12160, 61249, 11520, 60865, 60545, 11328,
       58369,  9408,  9600, 58689,  9984, 59329, 59009,  9792,
        8704, 58049, 58241,  9024, 57601,  8640,  8320, 57409,
       40961, 24768, 24960, 41281, 25344, 41921, 41601, 25152,
       26112, 42689, 42881, 26432, 42241, 26048, 25728, 42049,
       27648, 44225, 44417, 27968, 44801, 28608, 28288, 44609,
       43521, 27328, 27520, 43841, 26880, 43457, 43137, 26688,
       30720, 47297, 47489, 31040, 47873, 31680, 31360, 47681,
       48641, 32448, 32640, 48961, 32000, 48577, 48257, 31808,
       46081, 29888, 30080, 46401, 30464, 47041, 46721, 30272,
       29184, 45761, 45953, 29504, 45313, 29120, 28800, 45121,
       20480, 37057, 37249, 20800, 37633, 21440, 21120, 37441,
       38401, 22208, 22400, 38721, 21760, 38337, 38017, 21568,
       39937, 23744, 23936, 40257, 24320, 40897, 40577, 24128,
       23040, 39617, 39809, 23360, 39169, 22976, 22656, 38977,
       34817, 18624, 18816, 35137, 19200, 35777, 35457, 19008,
       19968, 36545, 36737, 20288, 36097, 19904, 19584, 35905,
       17408, 33985, 34177, 17728, 34561, 18368, 18048, 34369,
       33281, 17088, 17280, 33601, 16640, 33217, 32897, 16448 >>

RECURSIVE CRCFrom(_, _, _)
CRCFrom(crc, buf, i) ==
    IF i > Len(buf) THEN crc
    ELSE LET next == Xor16(crc \div 256, CRCTable[XorByte(crc % 256, buf[i]) + 1]) IN
         IF next >= 0 THEN CRCFrom(next, buf, i + 1) ELSE next

CRC(buf) == CRCFrom(CRCInit, buf, 1)

(***************************************************************************)
(* checkCRC and setCRC.  A Go slice buf[0..l-1] is the sequence            *)
(* buf[1..l]; the trailer is little-endian.                                *)
(***************************************************************************)
\* A variant of checkCRC that reads the trailer high byte first.
checkCRCBigEndian(buf) ==
    IF Len(buf) <= 2 THEN FALSE
    ELSE (buf[Len(buf)] + 256 * buf[Len(buf) - 1]) = CRC(SubSeq(buf, 1, Len(buf) - 2))

checkCRC(buf) ==
    LET l == Len(buf) IN
    IF l <= 2 THEN FALSE
    ELSE (buf[l - 1] + 256 * buf[l]) = CRC(SubSeq(buf, 1, l - 2))

setCRC(buf) ==
    LET l == Len(buf) IN
    IF l <= 2 THEN buf
    ELSE LET crc == CRC(SubSeq(buf, 1, l - 2)) IN
         [buf EXCEPT ![l - 1] = crc % 256, ![l] = (crc \div 256) % 256]

(***************************************************************************)
(* Errors are modelled by their kind; NoError is Go's nil.                 *)
(***************************************************************************)
NoError == "nil"

\* isError: only the marker byte 0x84 is recognised.
isError(buf) ==
    IF buf[2] = ErrorMarker
    THEN CASE buf[3] = 1 -> "Illegal command"
           [] buf[3] = 2 -> "Illegal address"
           [] buf[3] = 3 -> "Illegal data"
           [] buf[3] = 4 -> "Slave error"
           [] OTHER -> "Unknown error"
    ELSE NoError

\* A variant of recieve that looks for the device error before the checksum.
recieveMarkerFirst(rd, want) ==
    IF rd.err THEN "read error"
    ELSE IF rd.n # want THEN "short read"
    ELSE IF isError(rd.bytes) # NoError THEN isError(rd.bytes)
    ELSE IF ~checkCRC(rd.bytes) THEN "bad crc"
    ELSE NoError

\* One port.Read into a buffer of `want` bytes: rd.err is the transport's
\* error, rd.n the count it returned, rd.bytes the buffer afterwards.
recieve(rd, want) ==
    IF rd.err THEN "read error"
    ELSE IF rd.n # want THEN "short read"
    ELSE IF ~checkCRC(rd.bytes) THEN "bad crc"
    ELSE isError(rd.bytes)

(***************************************************************************)
(* float32 values.  float32(n) of a uint32 n rounds to 24 significant bits *)
(* (nearest, ties to even); the quotient of a float32 by a constant is     *)
(* kept as the reduced fraction it is the nearest float32 to.              *)
(***************************************************************************)
RECURSIVE F32Step(_, _)
F32Step(n, s) == IF n < 16777216 * s THEN s ELSE F32Step(n, 2 * s)

F32(n) ==
    LET s == F32Step(n, 1)
        q == n \div s
        r == n % s
    IN  IF 2 * r > s \/ (2 * r = s /\ q % 2 = 1) THEN (q + 1) * s ELSE q * s

RECURSIVE GCD(_, _)
GCD(a, b) == IF b = 0 THEN a ELSE GCD(b, a % b)

F32Div(n, d) ==
    LET g == GCD(F32(n), d) IN [num |-> F32(n) \div g, den |-> d \div g]

ZeroF32 == [num |-> 0, den |-> 1]

\* uint32(r[i])<<8 | uint32(r[i+1]), with r a Go slice (0-based index i).
Raw16(r, i) == r[i + 1] * 256 + r[i + 2]
\* A variant of Raw32 that reads the first register of the pair only.
Raw32LowWord(r, i) == r[i + 1] * 256 + r[i + 2]

\* uint32(r[i])<<8 | uint32(r[i+1]) | uint32(r[i+2])<<24 | uint32(r[i+3])<<16
Raw32(r, i) == r[i + 1] * 256 + r[i + 2] + r[i + 3] * 16777216 + r[i + 4] * 65536

(***************************************************************************)
(* The pzem struct (the port and lastRead aside) and its zero value.       *)
(***************************************************************************)
ZeroPzem ==
    [addr |-> 0, voltage |-> ZeroF32, current |-> ZeroF32, power |-> ZeroF32,
     energy |-> ZeroF32, frequeny |-> ZeroF32, powerFactor |-> ZeroF32,
     alarms |-> 0]

\* The assignments of updateValues after a validated response.
Decoded(q, response) ==
    [q EXCEPT !.voltage = F32Div(Raw16(response, 3), 10),
              !.current = F32Div(Raw32(response, 5), 1000),
              !.power = F32Div(Raw32(response, 9), 10),
              !.energy = F32Div(Raw32(response, 13), 1000),
              !.frequeny = F32Div(Raw16(response, 17), 10),
              !.powerFactor = F32Div(Raw16(response, 19), 100),
              !.alarms = Raw16(response, 21) % 65536]

(***************************************************************************)
(* Time.  The code reads lastRead only in updateValues, and only to        *)
(* compare it with the clock, so the two are kept as their difference:     *)
(* `since` is time.Now() - p.lastRead, and every difference of             *)
(* PzemUpdateTime or more is kept as PzemUpdateTime (the zero time.Time of *)
(* a new session is years before any clock reading).                       *)
(***************************************************************************)
Later(since, dt) ==
    IF since + dt >= PzemUpdateTime THEN PzemUpdateTime ELSE since + dt

\* A variant of Fresh that tests lastRead + PzemUpdateTime with !Before, so
\* that a cache of any age counts as fresh.
FreshNotBefore(since) == since <= PzemUpdateTime

\* A variant of Fresh with a window of 400 ms.
FreshFor400(since) == since < 400

\* p.lastRead.Add(PzemUpdateTime * time.Millisecond).After(time.Now())
Fresh(since) == since < PzemUpdateTime

(***************************************************************************)
(* The operations, as functions of the session value q and the outcomes of *)
(* the port calls they make: wr = [n, err] is what port.Write returns,     *)
(* rd = [n, err, bytes] what port.Read returns and the buffer it leaves.   *)
(* Each yields the error it returns, the session value afterwards, the     *)
(* port calls it made (tx, rx) and the time it slept (dt).                 *)
(***************************************************************************)
Sent(frame, wr) == [frame |-> frame, n |-> wr.n, err |-> wr.err]

\* A variant of CmdFrame that puts the low byte of the register and of the
\* value first.
CmdFrameLowFirst(a, cmd, reg, val) ==
    setCRC(<<a, cmd, reg % 256, (reg \div 256) % 256,
             val % 256, (val \div 256) % 256, 0, 0>>)

CmdFrame(a, cmd, reg, val) ==
    setCRC(<<a, cmd, (reg \div 256) % 256, reg % 256,
             (val \div 256) % 256, val % 256, 0, 0>>)

\* A variant of Checked that compares the address and the function byte only.
CheckedHeader(sendBuffer, wr, rd, e) ==
    IF wr.n <= 0 \/ e # NoError THEN e
    ELSE IF \E i \in 1..2 : sendBuffer[i] # rd.bytes[i] THEN "echo mismatch"
    ELSE NoError

\* sendCmd8 after port.Write and the sleep, with check set: e is what recieve
\* returned.
Checked(sendBuffer, wr, rd, e) ==
    IF wr.n <= 0 \/ e # NoError THEN e
    ELSE IF \E i \in 1..CmdLen : sendBuffer[i] # rd.bytes[i] THEN "echo mismatch"
    ELSE NoError

\* sendCmd8 from port.Write on: sendBuffer is the frame it has built.
Transmit(sendBuffer, check, wr, rd) ==
    IF wr.n < Len(sendBuffer) \/ wr.err
    THEN [err |-> IF wr.err THEN "write error" ELSE "short write",
          tx |-> <<Sent(sendBuffer, wr)>>, rx |-> <<>>, dt |-> 0]
    ELSE IF check
    THEN [err |-> Checked(sendBuffer, wr, rd, recieve(rd, CmdLen)),
          tx |-> <<Sent(sendBuffer, wr)>>, rx |-> <<rd>>, dt |-> CmdDelay]
    ELSE [err |-> NoError, tx |-> <<Sent(sendBuffer, wr)>>, rx |-> <<>>, dt |-> CmdDelay]

sendCmd8(q, cmd, reg, val, check, wr, rd) ==
    Transmit(CmdFrame(q.addr, cmd, reg, val), check, wr, rd)

\* A variant of AddressInRange that admits 0x00 and 0xF8.
AddressInRangeLoose(a) == ~(a < 0 \/ a > 248)

AddressInRange(a) == ~(a < 1 \/ a > 247)

\* setSlaveArddress after sendCmd8 returned s.
Committed(q, a, s) ==
    [err |-> s.err,
     p |-> IF s.err # NoError THEN q ELSE [q EXCEPT !.addr = a],
     tx |-> s.tx, rx |-> s.rx, dt |-> s.dt]

setSlaveArddress(q, a, wr, rd) ==
    IF ~AddressInRange(a)
    THEN [err |-> "bad address", p |-> q, tx |-> <<>>, rx |-> <<>>, dt |-> 0]
    ELSE Committed(q, a,
             sendCmd8(q, WriteSingleRegister, ModbusRTUAddress, a, TRUE, wr, rd))

\* The two assignments initDevice begins with.
Stored(q, a) ==
    LET q1 == IF a < 1 \/ a > PzemDefaultAddress
              THEN [q EXCEPT !.addr = PzemDefaultAddress] ELSE q
    IN  [q1 EXCEPT !.addr = a]

\* initDevice returns nothing: err is the error of setSlaveArddress that it
\* discards.
initDevice(q, a, wr, rd) ==
    IF Stored(q, a).addr # PzemDefaultAddress
    THEN setSlaveArddress(Stored(q, a), Stored(q, a).addr, wr, rd)
    ELSE [err |-> NoError, p |-> Stored(q, a), tx |-> <<>>, rx |-> <<>>, dt |-> 0]

\* Setup: config = [Port, SlaveArddress]; opened is whether serial.OpenPort
\* succeeds; ok is whether a Probe (not nil) is returned, err the error
\* returned, dev what initDevice did.
SetupAddress(a) == IF a = 0 THEN PzemDefaultAddress ELSE a

NoDevice == [err |-> NoError, p |-> ZeroPzem, tx |-> <<>>, rx |-> <<>>, dt |-> 0]

Setup(config, opened, wr, rd) ==
    IF config.Port = ""
    THEN [ok |-> FALSE, err |-> "serial port must be set", dev |-> NoDevice]
    ELSE IF ~opened
    THEN [ok |-> FALSE, err |-> "open error", dev |-> NoDevice]
    ELSE [ok |-> TRUE, err |-> NoError,
          dev |-> initDevice(ZeroPzem, SetupAddress(config.SlaveArddress), wr, rd)]

\* A variant of Admitted that decodes and stamps before it looks at e.
AdmittedUnvalidated(q, since, rd, s, e) ==
    [err |-> e, p |-> Decoded(q, rd.bytes), since |-> 0,
     tx |-> s.tx, rx |-> <<rd>>, dt |-> s.dt]

\* updateValues after sendCmd8 succeeded and recieve returned e.
Admitted(q, since, rd, s, e) ==
    [err |-> e,
     p |-> IF e # NoError THEN q ELSE Decoded(q, rd.bytes),
     since |-> IF e # NoError THEN Later(since, s.dt) ELSE 0,
     tx |-> s.tx, rx |-> <<rd>>, dt |-> s.dt]

\* A variant of Queried that stamps lastRead when the query could not be
\* written.
QueriedStamping(q, since, rd, s) ==
    IF s.err # NoError
    THEN [err |-> s.err, p |-> q, since |-> 0,
          tx |-> s.tx, rx |-> s.rx, dt |-> s.dt]
    ELSE Admitted(q, since, rd, s, recieve(rd, ResponseLen))

\* A variant of Queried that sends the query again after a failed write or a
\* reply that is not admitted.
QueriedAgain(q, since, rd, s) ==
    IF s.err # NoError
    THEN [err |-> s.err, p |-> q, since |-> Later(since, s.dt),
          tx |-> s.tx \o s.tx, rx |-> s.rx, dt |-> s.dt]
    ELSE IF recieve(rd, ResponseLen) # NoError
    THEN [err |-> recieve(rd, ResponseLen), p |-> q, since |-> Later(since, s.dt),
          tx |-> s.tx \o s.tx, rx |-> <<rd, rd>>, dt |-> s.dt]
    ELSE [err |-> NoError, p |-> Decoded(q, rd.bytes), since |-> 0,
          tx |-> s.tx, rx |-> <<rd>>, dt |-> s.dt]

\* updateValues after sendCmd8 returned s.
Queried(q, since, rd, s) ==
    IF s.err # NoError
    THEN [err |-> s.err, p |-> q, since |-> Later(since, s.dt),
          tx |-> s.tx, rx |-> s.rx, dt |-> s.dt]
    ELSE Admitted(q, since, rd, s, recieve(rd, ResponseLen))

\* updateValues; `since` in the result is time.Now() - p.lastRead when it
\* returns.
updateValues(q, since, wr, rd) ==
    IF Fresh(since)
    THEN [err |-> NoError, p |-> q, since |-> since, tx |-> <<>>, rx |-> <<>>, dt |-> 0]
    ELSE Queried(q, since, rd, sendCmd8(q, ReadInputRegister, 0, 10, FALSE, wr, rd))

ResetFrame(a) == setCRC(<<a, ResetEnergy, 0, 0>>)

\* A variant of resetEnergy that clears the cached energy when the reply is
\* admitted.
resetEnergyClearing(q, wr, rd) ==
    [err |-> recieve(rd, ResetLen),
     p |-> IF recieve(rd, ResetLen) = NoError THEN [q EXCEPT !.energy = ZeroF32] ELSE q,
     tx |-> <<Sent(ResetFrame(q.addr), wr)>>, rx |-> <<rd>>, dt |-> ResetDelay]

\* (p *pzem) ResetEnergy: the result of port.Write is not looked at.
resetEnergy(q, wr, rd) ==
    [err |-> recieve(rd, ResetLen), p |-> q,
     tx |-> <<Sent(ResetFrame(q.addr), wr)>>, rx |-> <<rd>>, dt |-> ResetDelay]

Accessors == {"Voltage", "Intensity", "Power", "Energy", "Frequency", "PowerFactor"}

\* The cached field an accessor returns.
Field(f, q) ==
    CASE f = "Voltage" -> q.voltage
      [] f = "Intensity" -> q.current
      [] f = "Power" -> q.power
      [] f = "Energy" -> q.energy
      [] f = "Frequency" -> q.frequeny
      [] f = "PowerFactor" -> q.powerFactor

\* A variant of accessor that serves the cached field whatever updateValues
\* returned.
accessorMasking(f, u) == [err |-> NoError, val |-> Field(f, u.p)]

\* Voltage, Intensity, Power, Energy, Frequency, PowerFactor: u is the outcome
\* of the call of updateValues each begins with.
accessor(f, u) ==
    [err |-> u.err, val |-> IF u.err # NoError THEN ZeroF32 ELSE Field(f, u.p)]

(***************************************************************************)
(* The environment: what the serial port may answer, and the arguments of  *)
(* the calls.                                                              *)
(***************************************************************************)
Zeros(n) == [i \in 1..n |-> 0]

Pad(bytes, n) == [i \in 1..n |-> IF i <= Len(bytes) THEN bytes[i] ELSE 0]

\* A frame whose trailer is wrong.
Corrupt(frame) ==
    [frame EXCEPT ![Len(frame)] = (frame[Len(frame)] + 1) % 256]

\* Two register blocks (the 20 data bytes of a 25-byte response).  The
\* second has 32-bit values that float32 cannot hold exactly.
Payloads ==
    { <<8, 252, 4, 210, 0, 0, 11, 22, 0, 0, 0, 100, 0, 0, 1, 244, 0, 95, 0, 0>>,
      <<0, 230, 18, 52, 0, 1, 0, 1, 2, 3, 255, 255, 1, 0, 2, 88, 0, 100, 255, 255>> }

WriteOutcomes(len) ==
    { [n |-> len, err |-> FALSE], [n |-> len - 3, err |-> FALSE],
      [n |-> 0, err |-> TRUE] }

\* A call that is never made.
NoWrite == [n |-> 0, err |-> FALSE]
NoRead == [err |-> FALSE, n |-> 0, bytes |-> <<>>]

\* port.Read into a buffer of `want` bytes: an error, the `partial` bytes only,
\* or one of `frames`.
ReadOutcomes(frames, partial, want) ==
    {[err |-> TRUE, n |-> 0, bytes |-> Zeros(want)]}
    \cup {[err |-> FALSE, n |-> Len(partial), bytes |-> Pad(partial, want)]}
    \cup {[err |-> FALSE, n |-> want, bytes |-> f] : f \in frames}

\* The outcomes of a write of len bytes and of the read that follows it when
\* the caller goes on to read only after a complete write.
WriteThenRead(len, reads) ==
    {<<wr, rd>> : wr \in {w \in WriteOutcomes(len) : w.n = len /\ ~w.err}, rd \in reads}
    \cup {<<wr, NoRead>> : wr \in {w \in WriteOutcomes(len) : ~(w.n = len /\ ~w.err)}}

\* The device's exception reply to function fn: 5 bytes.
Exception(a, fn, code) == setCRC(<<a, fn + 128, code, 0, 0>>)

\* 25-byte buffers after a read that follows the register query of the device
\* at address a: the two register blocks, and full-length frames carrying the
\* marker byte 0x84, one with a valid and one with a wrong trailer.
Frames25(a) ==
    {setCRC(<<a, ReadInputRegister, 20>> \o d \o <<0, 0>>) : d \in Payloads}
    \cup {setCRC(<<a, ErrorMarker, 2>> \o Zeros(22))}
    \cup {Corrupt(setCRC(<<a, ErrorMarker, 2>> \o Zeros(22)))}

\* 8-byte buffers after a read that follows the request `sent`: the echo, the
\* echo with a wrong trailer, the well-formed frames that differ from the
\* request in one of its first six bytes, and full-length frames with the
\* function bytes 0x84 and 0x86.
Frames8(sent) ==
    { sent, Corrupt(sent),
      setCRC(<<sent[1], ErrorMarker, 2, 0, 0, 0, 0, 0>>),
      setCRC(<<sent[1], WriteSingleRegister + 128, 2, 0, 0, 0, 0, 0>>) }
    \cup {setCRC([sent EXCEPT ![i] = (sent[i] + 1) % 256]) : i \in 1..6}

\* 4-byte buffers after a read that follows a reset: the echo, the echo with a
\* wrong trailer, and frames with the function bytes 0x84 and 0xC2.
Frames4(a) ==
    { ResetFrame(a), Corrupt(ResetFrame(a)),
      setCRC(<<a, ErrorMarker, 0, 0>>), setCRC(<<a, ResetEnergy + 128, 0, 0>>) }

\* What the port may do during updateValues, ResetEnergy and
\* setSlaveArddress(new) of the session at address a.
UpdateIO(a) ==
    WriteThenRead(CmdLen,
        ReadOutcomes(Frames25(a), Exception(a, ReadInputRegister, 2), ResponseLen))

\* ResetEnergy reads whatever the write returned; after a failed write the
\* read is one that fails or the echo.
ResetIO(a) ==
    LET reads == ReadOutcomes(Frames4(a), <<a, ResetEnergy + 128>>, ResetLen) IN
    {<<wr, rd>> : wr \in {w \in WriteOutcomes(ResetLen) : w.n = ResetLen /\ ~w.err},
                  rd \in reads}
    \cup {<<wr, rd>> : wr \in {w \in WriteOutcomes(ResetLen) : ~(w.n = ResetLen /\ ~w.err)},
                       rd \in {r \in reads : r.err \/ r.bytes = ResetFrame(a)}}

AddressIO(a, new) ==
    IF AddressInRange(new)
    THEN LET sent == CmdFrame(a, WriteSingleRegister, ModbusRTUAddress, new) IN
         WriteThenRead(CmdLen,
             ReadOutcomes(Frames8(sent), Exception(a, WriteSingleRegister, 2), CmdLen))
    ELSE {<<NoWrite, NoRead>>}

\* The configurations Setup is called with and the addresses setSlaveArddress
\* is called with.
Ports == {"", "/dev/ttyUSB0"}
RequestedAddresses == {0, 1, 247, 248, 249, 255}
NewAddresses == {0, 1, 2, 247} \cup (248..255)

\* The addresses a session may hold when setSlaveArddress is called on it.
StoredAddresses == {1, 248}

\* By how much the clock advances between two calls.
TickSteps == {400}

(***************************************************************************)
(* State.  session: whether Setup has returned a Probe.  p: the pzem       *)
(* value.  sinceRead: time.Now() - p.lastRead (see Later).  The rest       *)
(* records the last call for the properties: what it was and returned      *)
(* (ret), the port.Write and port.Read calls it made (tx, rx), the error   *)
(* initDevice discarded (dropped), and the time since it returned (idle,   *)
(* kept like sinceRead).                                                   *)
(***************************************************************************)
VARIABLES session, p, sinceRead, ret, tx, rx, dropped, idle

vars == <<session, p, sinceRead, ret, tx, rx, dropped, idle>>

Init ==
    /\ session = "none"
    /\ p = ZeroPzem
    /\ sinceRead = PzemUpdateTime
    /\ ret = [op |-> "none", arg |-> 0, err |-> NoError, val |-> ZeroF32]
    /\ tx = <<>>
    /\ rx = <<>>
    /\ dropped = NoError
    /\ idle = PzemUpdateTime

\* What a call leaves behind: the session value, the clock, and the record of
\* the call.
Returns(op, arg, err, val, q, since, sent, received) ==
    /\ p' = q
    /\ sinceRead' = since
    /\ ret' = [op |-> op, arg |-> arg, err |-> err, val |-> val]
    /\ tx' = sent
    /\ rx' = received
    /\ idle' = 0

SetupReturns(a, r) ==
    /\ session' = IF r.ok THEN "open" ELSE "none"
    /\ dropped' = r.dev.err
    /\ Returns("Setup", a, r.err, ZeroF32, r.dev.p, Later(sinceRead, r.dev.dt),
               r.dev.tx, r.dev.rx)

DoSetup ==
    /\ session = "none"
    /\ \E port \in Ports, a \in RequestedAddresses, opened \in BOOLEAN :
         \E io \in AddressIO(SetupAddress(a), SetupAddress(a)) :
            SetupReturns(a, Setup([Port |-> port, SlaveArddress |-> a], opened,
                                  io[1], io[2]))

SetSlaveArddressReturns(a, r) ==
    /\ Returns("setSlaveArddress", a, r.err, ZeroF32, r.p, Later(sinceRead, r.dt),
               r.tx, r.rx)
    /\ UNCHANGED <<session, dropped>>

\* A call of setSlaveArddress on the session.
DoSetSlaveArddress ==
    /\ session = "open"
    /\ \E a \in NewAddresses :
         \E io \in AddressIO(p.addr, a) :
            SetSlaveArddressReturns(a, setSlaveArddress(p, a, io[1], io[2]))

AccessorReturns(f, u, r) ==
    /\ Returns(f, 0, r.err, r.val, u.p, u.since, u.tx, u.rx)
    /\ UNCHANGED <<session, dropped>>

UpdateReturns(u) ==
    \E f \in Accessors : AccessorReturns(f, u, accessor(f, u))

DoAccessor ==
    /\ session = "open"
    /\ \E io \in IF Fresh(sinceRead) THEN {<<NoWrite, NoRead>>} ELSE UpdateIO(p.addr) :
         UpdateReturns(updateValues(p, sinceRead, io[1], io[2]))

ResetEnergyReturns(r) ==
    /\ Returns("ResetEnergy", 0, r.err, ZeroF32, r.p, Later(sinceRead, r.dt), r.tx, r.rx)
    /\ UNCHANGED <<session, dropped>>

DoResetEnergy ==
    /\ session = "open"
    /\ \E io \in ResetIO(p.addr) :
         ResetEnergyReturns(resetEnergy(p, io[1], io[2]))

Tick ==
    /\ \E d \in TickSteps :
         /\ sinceRead' = Later(sinceRead, d)
         /\ idle' = Later(idle, d)
    /\ UNCHANGED <<session, p, ret, tx, rx, dropped>>

Next == DoSetup \/ DoAccessor \/ DoResetEnergy \/ Tick

Spec == Init /\ [][Next]_vars

(***************************************************************************)
(* setSlaveArddress on its own: the package calls it from initDevice only, *)
(* with the address initDevice has just stored.  Here it is applied to     *)
(* sessions at the stored addresses, with every new address.               *)
(***************************************************************************)
InitAddress ==
    /\ session = "open"
    /\ p \in {[ZeroPzem EXCEPT !.addr = a] : a \in StoredAddresses}
    /\ sinceRead = PzemUpdateTime
    /\ ret = [op |-> "none", arg |-> 0, err |-> NoError, val |-> ZeroF32]
    /\ tx = <<>>
    /\ rx = <<>>
    /\ dropped = NoError
    /\ idle = PzemUpdateTime

NextAddress == DoSetSlaveArddress

SpecAddress == InitAddress /\ [][NextAddress]_vars

(***************************************************************************)
(* recieve on its own: applied once to each of a set of reads, of every    *)
(* length the package reads (4, 8 and 25 bytes), with the function bytes   *)
(* of the three commands, plain and with the high bit set, the marker byte *)
(* 0x84, every kind of code byte, valid and wrong trailers, and complete,  *)
(* short and failed reads.                                                 *)
(***************************************************************************)
ReplyLens == {ResetLen, CmdLen, ResponseLen}
ReplyAddresses == {1, PzemDefaultAddress}
ReplyFunctions ==
    {ReadInputRegister, WriteSingleRegister, ResetEnergy, ErrorMarker,
     WriteSingleRegister + 128, ResetEnergy + 128}
ReplyCodes == {0, 1, 2, 3, 4, 5, 255}

\* A buffer of `want` bytes with its trailer set, or set and then spoilt.
ReplyBuffer(a, fn, code, want, valid) ==
    IF valid THEN setCRC(<<a, fn, code>> \o Zeros(want - 3))
    ELSE Corrupt(setCRC(<<a, fn, code>> \o Zeros(want - 3)))

Replies ==
    {[err |-> e, n |-> IF short = 0 THEN want ELSE IF short = 1 THEN want - 1 ELSE 0,
      bytes |-> ReplyBuffer(a, fn, code, want, valid)] :
        e \in BOOLEAN, short \in {0, 1, 2}, a \in ReplyAddresses, fn \in ReplyFunctions,
        code \in ReplyCodes, want \in ReplyLens, valid \in BOOLEAN}

InitRecieve ==
    /\ session = "open"
    /\ p = [ZeroPzem EXCEPT !.addr = PzemDefaultAddress]
    /\ sinceRead = PzemUpdateTime
    /\ ret = [op |-> "none", arg |-> 0, err |-> NoError, val |-> ZeroF32]
    /\ tx = <<>>
    /\ rx \in {<<rd>> : rd \in Replies}
    /\ dropped = NoError
    /\ idle = PzemUpdateTime

\* p.recieve(resp) with the read rx[1]; ret.arg is len(resp).
DoRecieve ==
    /\ ret.op = "none"
    /\ ret' = [op |-> "recieve", arg |-> Len(rx[1].bytes),
               err |-> recieve(rx[1], Len(rx[1].bytes)), val |-> ZeroF32]
    /\ UNCHANGED <<session, p, sinceRead, tx, rx, dropped, idle>>

NextRecieve == DoRecieve

SpecRecieve == InitRecieve /\ [][NextRecieve]_vars

(***************************************************************************)
(* setCRC and checkCRC on their own: applied to every buffer of up to      *)
(* MaxBufLen bytes over BufferBytes, and to frames whose trailer is their  *)
(* checksum low byte first and high byte first.  rx[1].bytes is the        *)
(* buffer; setCRC changes it in place and leaves the buffer it was given   *)
(* in tx; ret.arg is what checkCRC returned (1 for true).                  *)
(***************************************************************************)
MaxBufLen == 5
BufferBytes == {0, 1, 128, 255}

\* buf with its last two bytes exchanged.
Swapped(buf) ==
    [i \in 1..Len(buf) |->
        IF i = Len(buf) - 1 THEN buf[Len(buf)]
        ELSE IF i = Len(buf) THEN buf[Len(buf) - 1] ELSE buf[i]]

Buffers ==
    UNION {[1..n -> BufferBytes] : n \in 0..MaxBufLen}
    \cup {CmdFrame(1, ReadInputRegister, 0, 10), ResetFrame(PzemDefaultAddress),
          Swapped(CmdFrame(1, ReadInputRegister, 0, 10)),
          Swapped(ResetFrame(PzemDefaultAddress))}

InitCRC ==
    /\ session = "none"
    /\ p = ZeroPzem
    /\ sinceRead = PzemUpdateTime
    /\ ret = [op |-> "none", arg |-> 0, err |-> NoError, val |-> ZeroF32]
    /\ tx = <<>>
    /\ rx \in {<<[err |-> FALSE, n |-> Len(b), bytes |-> b]>> : b \in Buffers}
    /\ dropped = NoError
    /\ idle = PzemUpdateTime

\* setCRC(buf) on a buffer not yet checked.
DoSetCRC ==
    /\ ret.op = "none"
    /\ tx' = <<[frame |-> rx[1].bytes, n |-> Len(rx[1].bytes), err |-> FALSE]>>
    /\ rx' = <<[rx[1] EXCEPT !.bytes = setCRC(rx[1].bytes)]>>
    /\ ret' = [ret EXCEPT !.op = "setCRC"]
    /\ UNCHANGED <<session, p, sinceRead, dropped, idle>>

\* checkCRC(buf), on the buffer as drawn or after setCRC.
DoCheckCRC ==
    /\ ret.op \in {"none", "setCRC"}
    /\ ret' = [ret EXCEPT !.op = "checkCRC",
                          !.arg = IF checkCRC(rx[1].bytes) THEN 1 ELSE 0]
    /\ UNCHANGED <<session, p, sinceRead, tx, rx, dropped, idle>>

NextCRC == DoSetCRC \/ DoCheckCRC

SpecCRC == InitCRC /\ [][NextCRC]_vars

(***************************************************************************)
(* The 8-byte frame on its own: sendCmd8 called once with every command of *)
(* the package and registers and values that differ in their high and low  *)
(* bytes, with and without the check of the reply, and the two callers of  *)
(* sendCmd8, updateValues and setSlaveArddress, called once on the same    *)
(* sessions.  ret.arg holds the command, register and value of the call.   *)
(***************************************************************************)
FrameAddresses == {1, 66, PzemDefaultAddress}
FrameCommands == {3, ReadInputRegister, WriteSingleRegister, 65, ResetEnergy}
FrameRegisters == {0, ModbusRTUAddress, 9, 255, 258, 65280, 65535}
FrameValues == {0, 1, 10, 255, 4660, 65280, 65535}
FrameArgs == [cmd : FrameCommands, reg : FrameRegisters, val : FrameValues]

InitFrame ==
    /\ session = "open"
    /\ p \in {[ZeroPzem EXCEPT !.addr = a] : a \in FrameAddresses}
    /\ sinceRead = PzemUpdateTime
    /\ ret \in {[op |-> "none", arg |-> g, err |-> NoError, val |-> ZeroF32] :
                    g \in FrameArgs}
    /\ tx = <<>>
    /\ rx = <<>>
    /\ dropped = NoError
    /\ idle = PzemUpdateTime

\* What the port may do during sendCmd8 of `sent` with and without check.
FrameIO(sent, check) ==
    IF check
    THEN WriteThenRead(CmdLen,
             ReadOutcomes(Frames8(sent), Exception(sent[1], sent[2], 2), CmdLen))
    ELSE WriteThenRead(CmdLen, {NoRead})

FrameReturns(op, g, r, q, since) ==
    /\ Returns(op, g, r.err, ZeroF32, q, since, r.tx, r.rx)
    /\ UNCHANGED <<session, dropped>>

\* sendCmd8(cmd, reg, val, check) on the session.
DoSendCmd8 ==
    /\ ret.op = "none"
    /\ \E check \in BOOLEAN :
         \E io \in FrameIO(CmdFrame(p.addr, ret.arg.cmd, ret.arg.reg, ret.arg.val), check) :
            FrameReturns("sendCmd8", ret.arg,
                sendCmd8(p, ret.arg.cmd, ret.arg.reg, ret.arg.val, check, io[1], io[2]),
                p, sinceRead)

UpdateValuesReturns(u) == FrameReturns("updateValues", ret.arg, u, u.p, u.since)

\* updateValues on the session.
DoUpdateValues ==
    /\ ret.op = "none"
    /\ \E io \in UpdateIO(p.addr) :
         UpdateValuesReturns(updateValues(p, sinceRead, io[1], io[2]))

SetAddressReturns(a, r) ==
    FrameReturns("setSlaveArddress", [ret.arg EXCEPT !.val = a], r, r.p, sinceRead)

\* setSlaveArddress(a) on the session.
DoSetAddress ==
    /\ ret.op = "none"
    /\ \E a \in NewAddresses :
         \E io \in AddressIO(p.addr, a) :
            SetAddressReturns(a, setSlaveArddress(p, a, io[1], io[2]))

NextFrame == DoSendCmd8 \/ DoUpdateValues \/ DoSetAddress

SpecFrame == InitFrame /\ [][NextFrame]_vars

(***************************************************************************)
(* The decoding on its own: updateValues called once on a session whose    *)
(* port completes the write and then delivers one of a set of 25-byte      *)
(* reads, given in rx before the call.  The register block of a read is    *)
(* put together from 16-bit and 32-bit fields chosen independently, with   *)
(* bytes that differ in every position; the pairs of registers stay below  *)
(* 2^30, the largest raw value F32 rounds.  Every read comes with a valid  *)
(* and with a wrong trailer.                                               *)
(***************************************************************************)
DecodeWords16 == {<<0, 230>>, <<8, 252>>, <<255, 255>>}
DecodeWords32 ==
    {<<0, 0, 0, 0>>, <<18, 52, 0, 1>>, <<0, 1, 2, 3>>, <<255, 255, 1, 0>>,
     <<1, 2, 63, 255>>}

DecodeBlocks ==
    {v \o c \o w \o e \o f \o pf \o al :
        v \in DecodeWords16, c \in DecodeWords32, w \in DecodeWords32,
        e \in DecodeWords32, f \in DecodeWords16, pf \in DecodeWords16,
        al \in DecodeWords16}

DecodeFrames(a) ==
    {setCRC(<<a, ReadInputRegister, 20>> \o d \o <<0, 0>>) : d \in DecodeBlocks}

InitDecode ==
    /\ session = "open"
    /\ p = [ZeroPzem EXCEPT !.addr = PzemDefaultAddress]
    /\ sinceRead = PzemUpdateTime
    /\ ret = [op |-> "none", arg |-> 0, err |-> NoError, val |-> ZeroF32]
    /\ tx = <<>>
    /\ rx \in {<<[err |-> FALSE, n |-> ResponseLen, bytes |-> b]>> :
                 b \in DecodeFrames(PzemDefaultAddress)
                       \cup {Corrupt(f) : f \in DecodeFrames(PzemDefaultAddress)}}
    /\ dropped = NoError
    /\ idle = PzemUpdateTime

DecodeReturns(u) ==
    /\ Returns("updateValues", 0, u.err, ZeroF32, u.p, u.since, u.tx, u.rx)
    /\ UNCHANGED <<session, dropped>>

\* updateValues on the session, with the read rx[1].
DoDecode ==
    /\ ret.op = "none"
    /\ DecodeReturns(updateValues(p, sinceRead, [n |-> CmdLen, err |-> FALSE], rx[1]))

NextDecode == DoDecode

SpecDecode == InitDecode /\ [][NextDecode]_vars

(***************************************************************************)
(* Properties.  What they observe of a call is the record it leaves: ret,  *)
(* tx, rx, dropped, and idle = 0 in the state it returns to.               *)
(***************************************************************************)
\* A port.Write that took the whole frame.
Complete(w) == ~w.err /\ w.n = Len(w.frame)

\* This step is a call of an accessor (Tick leaves idle above 0).
AccessorCall == ret'.op \in Accessors /\ idle' = 0

\* The cached field the accessor named op returns.
Cached(op) ==
    CASE op = "Voltage" -> p.voltage
      [] op = "Intensity" -> p.current
      [] op = "Power" -> p.power
      [] op = "Energy" -> p.energy
      [] op = "Frequency" -> p.frequeny
      [] op = "PowerFactor" -> p.powerFactor

\* The last call's refresh went to the port and failed there.
RefreshFailed ==
    /\ tx # <<>>
    /\ \/ ~Complete(tx[1])
       \/ recieve(rx[1], ResponseLen) # NoError

\* The last call wrote a frame in full and read that frame back.
EchoedCorrectly ==
    /\ Len(tx) = 1 /\ Complete(tx[1])
    /\ Len(rx) = 1 /\ ~rx[1].err /\ rx[1].n = Len(tx[1].frame)
    /\ rx[1].bytes = tx[1].frame

\* A port call of the last call failed: a write in error or short, a read in
\* error or short, a reply with a wrong checksum or one recieve takes for a
\* device error.
TransportStepFailed ==
    \/ \E i \in 1..Len(tx) : ~Complete(tx[i])
    \/ \E i \in 1..Len(rx) : recieve(rx[i], Len(rx[i].bytes)) # NoError

\* C1, as amended: of two consecutive accessor calls the first of which
\* refreshed the cache from the port, the second, when it begins less than
\* 1000 ms after the first returned, touches the port not at all and serves
\* the unchanged cache (the pair issues exactly one read); when it begins
\* 1000 ms or more after, it writes a new query, and the pair issues two
\* reads whenever that query is written in full.
C1_WindowFromRefresh ==
    [][(ret.op \in Accessors /\ ret.err = NoError /\ Len(rx) = 1 /\ AccessorCall)
       => /\ idle < PzemUpdateTime
             => /\ tx' = <<>> /\ rx' = <<>>
                /\ ret'.err = NoError /\ p' = p
                /\ Len(rx) + Len(rx') = 1
          /\ idle >= PzemUpdateTime
             => /\ Len(tx') = 1
                /\ Complete(tx'[1]) => Len(rx) + Len(rx') = 2]_vars

\* C1 witness: an accessor call served from the cache 400 ms after the
\* refresh that filled it.
C1_Reused ==
    /\ ret.op \in Accessors /\ ret.err = NoError
    /\ tx = <<>> /\ rx = <<>>
    /\ idle = 0 /\ sinceRead = 400
    /\ p.voltage # ZeroF32

\* C1 as stated: of any two consecutive accessor calls, when the second
\* begins less than 1000 ms after the first returned the pair issues exactly
\* one read and the second touches the port not at all, and when it begins
\* 1000 ms or more after, the pair issues two reads.
C1_AnyPair ==
    [][(ret.op \in Accessors /\ AccessorCall)
       => /\ idle < PzemUpdateTime
             => tx' = <<>> /\ rx' = <<>> /\ Len(rx) + Len(rx') = 1
          /\ idle >= PzemUpdateTime
             => Len(rx) + Len(rx') = 2]_vars

\* C2: an accessor call whose refresh fails leaves the seven cached fields
\* as they were and does not move the freshness timestamp (the time since
\* the timestamp does not shrink).
C2_FailureIsolation ==
    [][(AccessorCall /\ ret'.err # NoError)
       => /\ p'.voltage = p.voltage /\ p'.current = p.current
          /\ p'.power = p.power /\ p'.energy = p.energy
          /\ p'.frequeny = p.frequeny /\ p'.powerFactor = p.powerFactor
          /\ p'.alarms = p.alarms
          /\ sinceRead' >= sinceRead]_vars

\* C2 witness: a refresh rejected for its checksum, with the earlier
\* measurements still cached and still stale.
C2_KeptAfterBadCRC ==
    /\ ret.op \in Accessors /\ ret.err = "bad crc"
    /\ Len(rx) = 1
    /\ p.voltage # ZeroF32 /\ p.alarms = 65535
    /\ sinceRead = PzemUpdateTime

\* C3 as stated: when Setup's address write fails (in the transport, in the
\* reply or in the echo), Setup returns an error and no session.
C3_SetupSurfacesWriteFailure ==
    (ret.op = "Setup" /\ dropped \notin {NoError, "bad address"})
    => (ret.err # NoError /\ session = "none")

\* C4 as stated: the address of a session is in 0x01..0xF7 or is 0xF8, and so
\* is byte 0 of every frame written.
C4_AddressInvariant ==
    /\ session = "open" => p.addr \in (1..247) \cup {PzemDefaultAddress}
    /\ \A i \in 1..Len(tx) : tx[i].frame[1] \in (1..247) \cup {PzemDefaultAddress}

\* C5 as stated: after Setup the session's address is 0xF8 when the requested
\* address is zero or outside 0x01..0xF8, and the requested address otherwise.
C5_AddressResolution ==
    (ret.op = "Setup" /\ session = "open")
    => p.addr = IF ret.arg = 0 \/ ret.arg < 1 \/ ret.arg > 248
                THEN PzemDefaultAddress ELSE ret.arg

\* C6 as stated: a call one of whose port calls failed returns an error (for
\* Setup: the error Setup returns).
C6_NoErrorSwallowed ==
    (ret.op # "none" /\ TransportStepFailed) => ret.err # NoError

\* C7: an accessor whose refresh failed returns the error, with 0.0 and not
\* the cached field; one whose refresh succeeded or was skipped returns no
\* error and exactly the cached field that goes with it.
C7_FailLoudly ==
    ret.op \in Accessors
    => IF RefreshFailed
       THEN ret.err # NoError /\ ret.val = ZeroF32
       ELSE ret.err = NoError /\ ret.val = Cached(ret.op)

\* C7 witness: Voltage returning the error of a short read and 0.0 while a
\* voltage is cached.
C7_LoudShortRead ==
    /\ ret.op = "Voltage" /\ ret.err = "short read" /\ ret.val = ZeroF32
    /\ p.voltage # ZeroF32

\* C8: setSlaveArddress(a) with a outside 0x01..0xF7 returns the
\* invalid-address error, writes and reads nothing and leaves the address;
\* with a in 0x01..0xF7 it returns no error when the frame is written in full
\* and read back.
C8_RangeCheck ==
    [][ret'.op = "setSlaveArddress"
       => /\ ret'.arg \notin 1..247
             => /\ ret'.err = "bad address"
                /\ tx' = <<>> /\ rx' = <<>>
                /\ p'.addr = p.addr
          /\ (ret'.arg \in 1..247 /\ EchoedCorrectly') => ret'.err = NoError]_vars

\* C8 witness: setSlaveArddress(0xF8) rejected on a session at 0xF7.
C8_RejectedDefault ==
    /\ ret.op = "setSlaveArddress" /\ ret.arg = 248 /\ ret.err = "bad address"
    /\ tx = <<>> /\ p.addr = 247

\* C9 as stated, for the attempt made during Setup: the session holds the
\* requested address if and only if the write-with-verify succeeded.
C9_CommitOnlyOnSuccess ==
    (ret.op = "Setup" /\ session = "open" /\ ret.arg \in 1..247)
    => (p.addr = ret.arg <=> dropped = NoError)

\* C10: no call makes more than one port.Write or more than one port.Read.
C10_NoRetry == Len(tx) <= 1 /\ Len(rx) <= 1

\* C10 witness: a ResetEnergy that returned an error after one write and one
\* read.
C10_FailedOnce ==
    /\ ret.op = "ResetEnergy" /\ ret.err # NoError
    /\ Len(tx) = 1 /\ Len(rx) = 1

\* C11: an accessor call that fails leaves the cache stale, and every accessor
\* call on a stale cache (so every one that follows a failed refresh with no
\* successful refresh in between, whatever else was called meanwhile) writes a
\* new query and returns what this attempt yields: an error exactly when this
\* attempt failed at the port.
C11_NotSticky ==
    [][AccessorCall
       => /\ ret'.err # NoError => ~Fresh(sinceRead')
          /\ ~Fresh(sinceRead)
             => /\ Len(tx') = 1
                /\ ret'.err # NoError
                   <=> \/ ~Complete(tx'[1])
                       \/ recieve(rx'[1], ResponseLen) # NoError]_vars

\* C11 witness: an accessor call that went to the port and succeeded on a
\* session whose address write in Setup had failed.
C11_UsableAfterFailure ==
    /\ ret.op \in Accessors /\ ret.err = NoError
    /\ Len(tx) = 1 /\ Len(rx) = 1
    /\ dropped = "write error"

\* A frame whose function byte has its high bit set.
HighBitSet(buf) == buf[2] >= 128

\* C12 as stated: ResetEnergy writes exactly the frame [address, 0x42, crc_lo,
\* crc_hi] with the checksum of the first two bytes, reads one reply, and
\* returns no error exactly when the reply is 4 bytes long, has a valid
\* checksum and carries no device error (a function byte with the high bit
\* set).
C12_ResetValidated ==
    ret.op = "ResetEnergy"
    => /\ Len(tx) = 1 /\ Len(rx) = 1
       /\ tx[1].frame = <<p.addr, 66, CRC(<<p.addr, 66>>) % 256,
                          CRC(<<p.addr, 66>>) \div 256>>
       /\ ret.err = NoError
          <=> /\ ~rx[1].err /\ rx[1].n = 4
              /\ checkCRC(rx[1].bytes)
              /\ ~HighBitSet(rx[1].bytes)

\* The device error the exception code byte stands for.
CodeError(code) ==
    CASE code = 1 -> "Illegal command"
      [] code = 2 -> "Illegal address"
      [] code = 3 -> "Illegal data"
      [] code = 4 -> "Slave error"
      [] OTHER -> "Unknown error"

\* The read rx[1] filled the whole buffer and its trailer is valid.
FullAndValid == ~rx[1].err /\ rx[1].n = Len(rx[1].bytes) /\ checkCRC(rx[1].bytes)

\* C13 as stated: recieve rejects every full-length response with a valid
\* checksum whose function byte has the high bit set, with the device error
\* its next byte stands for (1 illegal command, 2 illegal address, 3 illegal
\* data, 4 slave error, any other unknown error).
C13_HighBitRejected ==
    (ret.op = "recieve" /\ FullAndValid /\ HighBitSet(rx[1].bytes))
    => ret.err = CodeError(rx[1].bytes[3])

\* The errors isError returns.
DeviceErrors ==
    {"Illegal command", "Illegal address", "Illegal data", "Slave error", "Unknown error"}

\* C14: of a read that returned without error, recieve reports a length other
\* than the buffer's as a short read whatever the content, a full-length
\* response with a wrong trailer as a bad checksum even when the marker byte
\* is set, and a device error only for a full-length response with a valid
\* checksum.
C14_AdmissionOrder ==
    (ret.op = "recieve" /\ ~rx[1].err)
    => /\ rx[1].n # Len(rx[1].bytes) => ret.err = "short read"
       /\ (rx[1].n = Len(rx[1].bytes) /\ ~checkCRC(rx[1].bytes)) => ret.err = "bad crc"
       /\ ret.err \in DeviceErrors
          => rx[1].n = Len(rx[1].bytes) /\ checkCRC(rx[1].bytes)

\* C14 witness: a 25-byte response with the marker byte 0x84 and a wrong
\* trailer, reported as a bad checksum.
C14_BadTrailerBeforeMarker ==
    /\ ret.op = "recieve" /\ ret.err = "bad crc"
    /\ ~rx[1].err /\ rx[1].n = ResponseLen /\ Len(rx[1].bytes) = ResponseLen
    /\ rx[1].bytes[2] = ErrorMarker /\ rx[1].bytes[3] = 2

\* C15: a write-with-check (setSlaveArddress) that wrote its frame returns no
\* error only when the 8-byte response was read in full, has a valid checksum,
\* carries no device error and equals the frame byte for byte; a response that
\* passes recieve and differs from the frame in any byte makes it return the
\* echo-mismatch error.
C15_EchoVerified ==
    (ret.op = "setSlaveArddress" /\ tx # <<>>)
    => /\ ret.err = NoError
          => /\ Len(rx) = 1 /\ ~rx[1].err /\ rx[1].n = CmdLen
             /\ checkCRC(rx[1].bytes) /\ ~HighBitSet(rx[1].bytes)
             /\ \A i \in 1..CmdLen : rx[1].bytes[i] = tx[1].frame[i]
       /\ (Len(rx) = 1 /\ recieve(rx[1], CmdLen) = NoError
           /\ \E i \in 1..CmdLen : rx[1].bytes[i] # tx[1].frame[i])
          => ret.err = "echo mismatch"

\* C15 witness: a response with a valid checksum that differs from the frame
\* in the value byte alone, refused as an echo mismatch.
C15_MismatchInValue ==
    /\ ret.op = "setSlaveArddress" /\ ret.err = "echo mismatch"
    /\ Len(rx) = 1 /\ checkCRC(rx[1].bytes)
    /\ rx[1].bytes[6] # tx[1].frame[6]
    /\ \A i \in 1..5 : rx[1].bytes[i] = tx[1].frame[i]

\* C16: checkCRC returns false for every buffer of 2 bytes or fewer; for a
\* longer buffer it returns true exactly when the last two bytes are the
\* checksum of the bytes before them, low byte first; and it returns true on
\* every buffer longer than 2 bytes that setCRC was applied to.  setCRC
\* changes nothing but the last two bytes.
C16_RoundTrip ==
    /\ ret.op = "checkCRC"
       => /\ Len(rx[1].bytes) <= 2 => ret.arg = 0
          /\ Len(rx[1].bytes) > 2
             => /\ ret.arg = 1
                   <=> /\ rx[1].bytes[Len(rx[1].bytes) - 1]
                          = CRC(SubSeq(rx[1].bytes, 1, Len(rx[1].bytes) - 2)) % 256
                       /\ rx[1].bytes[Len(rx[1].bytes)]
                          = CRC(SubSeq(rx[1].bytes, 1, Len(rx[1].bytes) - 2)) \div 256
                /\ tx # <<>> => ret.arg = 1
    /\ ret.op = "setCRC"
       => /\ Len(rx[1].bytes) = Len(tx[1].frame)
          /\ \A i \in 1..Len(rx[1].bytes) - 2 : rx[1].bytes[i] = tx[1].frame[i]
          /\ Len(rx[1].bytes) <= 2 => rx[1].bytes = tx[1].frame

\* C16 witness: checkCRC returning true on a 3-byte buffer after setCRC
\* replaced a trailer that was not its checksum.
C16_SetThenChecked ==
    /\ ret.op = "checkCRC" /\ ret.arg = 1
    /\ tx # <<>> /\ Len(rx[1].bytes) = 3
    /\ rx[1].bytes # tx[1].frame

\* The eight bytes the specification gives for a register command.
Layout(a, fn, reg, val) ==
    <<a, fn, reg \div 256, reg % 256, val \div 256, val % 256,
      CRC(<<a, fn, reg \div 256, reg % 256, val \div 256, val % 256>>) % 256,
      CRC(<<a, fn, reg \div 256, reg % 256, val \div 256, val % 256>>) \div 256>>

\* C17: every call of sendCmd8 hands the port exactly one frame, the eight
\* bytes [address, function, register high, register low, value high, value
\* low, checksum low, checksum high] of its arguments and of the address the
\* session holds when it is called; a refresh hands over that frame for
\* function 0x04, register 0x0000 and value 0x000A, and setSlaveArddress(a)
\* with a in range that frame for function 0x06, register 0x0002 and value a.
C17_FrameLayout ==
    [][/\ ret'.op = "sendCmd8"
          => /\ Len(tx') = 1
             /\ tx'[1].frame = Layout(p.addr, ret.arg.cmd, ret.arg.reg, ret.arg.val)
       /\ ret'.op = "updateValues"
          => /\ Len(tx') = 1
             /\ tx'[1].frame = Layout(p.addr, 4, 0, 10)
       /\ (ret'.op = "setSlaveArddress" /\ ret'.err # "bad address")
          => /\ Len(tx') = 1
             /\ tx'[1].frame = Layout(p.addr, 6, 2, ret'.arg.val)]_vars

\* C17 witness: sendCmd8 has written a frame whose register and value each
\* have different high and low bytes, and the write was complete.
C17_MixedBytesSent ==
    /\ ret.op = "sendCmd8" /\ ret.err = NoError
    /\ ret.arg.reg = 258 /\ ret.arg.val = 4660
    /\ Len(tx) = 1 /\ Complete(tx[1])
    /\ tx[1].frame[3] = 1 /\ tx[1].frame[4] = 2
    /\ tx[1].frame[5] = 18 /\ tx[1].frame[6] = 52

\* The value float32(raw) holds: raw itself below 2^24, raw rounded to 24
\* significant bits from there on.
Rounded(raw) == IF raw < 16777216 THEN raw ELSE F32(raw)

\* The cached value v is float32(raw) divided by scale.
ScaledFrom(v, raw, scale) ==
    /\ scale % v.den = 0
    /\ v.num * (scale \div v.den) = Rounded(raw)

\* Byte i of the response, counted from 0.
Pair(b, i) == b[i + 1] * 256 + b[i + 2]
Quad(b, i) == b[i + 1] * 256 + b[i + 2] + b[i + 3] * 16777216 + b[i + 4] * 65536

\* C18: after updateValues admitted a 25-byte response b, the cached fields
\* are voltage = (b3<<8|b4)/10, current = (b5<<8|b6|b7<<24|b8<<16)/1000,
\* power = (b9<<8|b10|b11<<24|b12<<16)/10, energy =
\* (b13<<8|b14|b15<<24|b16<<16)/1000, frequency = (b17<<8|b18)/10, power
\* factor = (b19<<8|b20)/100 and alarms = b21<<8|b22, each raw value taken
\* as a float32 before the division.
C18_RegisterDecoding ==
    (ret.op = "updateValues" /\ ret.err = NoError)
    => /\ ScaledFrom(p.voltage, Pair(rx[1].bytes, 3), 10)
       /\ ScaledFrom(p.current, Quad(rx[1].bytes, 5), 1000)
       /\ ScaledFrom(p.power, Quad(rx[1].bytes, 9), 10)
       /\ ScaledFrom(p.energy, Quad(rx[1].bytes, 13), 1000)
       /\ ScaledFrom(p.frequeny, Pair(rx[1].bytes, 17), 10)
       /\ ScaledFrom(p.powerFactor, Pair(rx[1].bytes, 19), 100)
       /\ p.alarms = Pair(rx[1].bytes, 21)

\* C18 witness: an admitted response with the voltage bytes 0x00 0xE6 and
\* the current bytes 0x12 0x34 0x00 0x01 has left the voltage 23.0 and the
\* current 70.196 in the cache.
C18_Voltage23 ==
    /\ ret.op = "updateValues" /\ ret.err = NoError
    /\ SubSeq(rx[1].bytes, 4, 9) = <<0, 230, 18, 52, 0, 1>>
    /\ p.voltage = [num |-> 23, den |-> 1]
    /\ p.current = [num |-> 17549, den |-> 250]

\* The cache of q is the zero value Setup creates the session with.  Every
\* register block the port delivers decodes to a voltage above zero, so the
\* cache has this value exactly as long as no refresh has succeeded.
NeverRefreshed(q) == [q EXCEPT !.addr = 0] = ZeroPzem

\* C19: an accessor called while the cache is still the zero value of a new
\* session sends the query to the port, whatever time has passed and
\* whatever was called before, and returns without error only if the write
\* was complete and the response admitted, with the field decoded from that
\* response; no accessor returns without error while the cache is the zero
\* value.
C19_NoValueBeforeRefresh ==
    [][AccessorCall
       => /\ ret'.err = NoError => ~NeverRefreshed(p')
          /\ NeverRefreshed(p)
             => /\ Len(tx') = 1
                /\ tx'[1].frame = CmdFrame(p.addr, ReadInputRegister, 0, 10)
                /\ ret'.err = NoError
                   => /\ Complete(tx'[1])
                      /\ recieve(rx'[1], ResponseLen) = NoError
                      /\ ret'.val = Field(ret'.op, Decoded(p, rx'[1].bytes))]_vars

\* C19 witness: an accessor called on a session that has never been
\* refreshed went to the port, got a response with a wrong trailer and
\* returned the error; the cache is still the zero value.
C19_FirstCallRefused ==
    /\ ret.op = "Energy" /\ ret.err = "bad crc"
    /\ NeverRefreshed(p)
    /\ Len(tx) = 1 /\ Complete(tx[1]) /\ Len(rx) = 1

\* C20: a call of ResetEnergy, whatever it returns, leaves the address and
\* every cached field as they were and does not touch lastRead, so that the
\* age of the cache grows by the 400 ms the call sleeps and by nothing else;
\* and an Energy call that follows a reset that returned no error while the
\* cache is less than 1000 ms old returns the energy cached before the reset,
\* without a write or a read on the port.
C20_ResetLeavesCache ==
    [][/\ (ret'.op = "ResetEnergy" /\ idle' = 0)
          => /\ p' = p
             /\ sinceRead' = IF sinceRead + ResetDelay >= PzemUpdateTime
                             THEN PzemUpdateTime ELSE sinceRead + ResetDelay
       /\ (/\ ret.op = "ResetEnergy" /\ ret.err = NoError
           /\ sinceRead < PzemUpdateTime
           /\ ret'.op = "Energy" /\ idle' = 0)
          => /\ tx' = <<>> /\ rx' = <<>>
             /\ ret'.err = NoError
             /\ ret'.val = p.energy
             /\ p' = p /\ sinceRead' = sinceRead]_vars

\* C20 witness: ResetEnergy has returned without error 400 ms after a
\* refresh; the cache still holds the energy of that refresh and is young
\* enough to be served.
C20_ResetInsideWindow ==
    /\ ret.op = "ResetEnergy" /\ ret.err = NoError /\ idle = 0
    /\ sinceRead = ResetDelay
    /\ p.energy # ZeroF32
    /\ Len(tx) = 1 /\ Complete(tx[1])

====
